---- MODULE Spec2Model ----
(***************************************************************************)
(* Ghana customs post-clearance audit: the audit orchestrator              *)
(* (GhanaAuditRunner) and the four violation-detection agents it runs.     *)
(*                                                                         *)
(* executeAudit is an async function: it runs atomically from one await    *)
(* to the next.  Each action below is one such segment.  cancelExecution   *)
(* may be called by any other code of the process between two segments.    *)
(***************************************************************************)
EXTENDS Integers, Sequences, FiniteSets, TLC

(* ------------------------------ bounds --------------------------------- *)
MaxDecls == 2          \* longest declaration list handed to executeAudit
MaxConcurrencyBound == 2   \* largest executionOptions.maxConcurrency tried
MaxRules == 3          \* longest rules array of a rule pack
MaxPacks == 3          \* most createRulePack calls made on the store
MaxSubmissions == 7    \* most executeAuditWithMonitoring calls made on the engine
MaxCancels == 1        \* most 'cancel-execution' requests sent to the engine
MaxArrivals == 10      \* most submissions of a burst at the default priority
MaxQueue == 4          \* longest queue built when the queue is driven on its own
MaxInsertions == 6     \* most queueExecution calls made then

(* ------------------------- small helpers ------------------------------- *)
Abs(x) == IF x < 0 THEN -x ELSE x

Min(a, b) == IF a < b THEN a ELSE b

\* String.prototype.startsWith on HS codes, which are sequences of digits
startsWith(s, p) == Len(p) <= Len(s) /\ SubSeq(s, 1, Len(p)) = p

RECURSIVE SeqSum(_)
SeqSum(s) == IF s = <<>> THEN 0 ELSE Head(s) + SeqSum(Tail(s))

RECURSIVE SelectSeqBy(_, _)
\* Array.prototype.filter with a predicate given as a set of accepted elements
SelectSeqBy(s, ok) ==
    IF s = <<>> THEN <<>>
    ELSE IF Head(s) \in ok THEN <<Head(s)>> \o SelectSeqBy(Tail(s), ok)
         ELSE SelectSeqBy(Tail(s), ok)

Range(s) == {s[i] : i \in 1..Len(s)}

(* --------------------------- declarations ------------------------------ *)
(* A declaration is an untyped object (any).  `present` lists the optional *)
(* properties the object carries; a property outside `present` is          *)
(* undefined.  Money amounts are whole currency units; values are          *)
(* multiples of 1000 so that every tax rate gives a whole amount.          *)
TaxKeys == {"vat", "getFund", "nhil", "covid", "importDuty", "excise"}

NoTaxes == [k \in TaxKeys |-> 0]

BaseDecl ==
    [ id |-> "D0",
      shipmentId |-> "S0",
      date |-> 0,
      present |-> {},
      hsCode |-> <<>>,
      originCountry |-> "GH",
      destinationCountry |-> "GH",
      ecowasOrigin |-> FALSE,
      value |-> 1000,
      sector |-> "other",
      riskScore |-> 0,
      transitCountries |-> {},
      documents |-> {},
      atgApplicable |-> FALSE,
      atgCertificate |-> FALSE,
      finalVolume |-> 0,
      volume |-> 0,
      weight |-> 0,
      qualityCertificate |-> FALSE,
      taxes |-> NoTaxes,
      taxStrings |-> {},
      tinDigits |-> 0,
      exemptions |-> <<>>,
      paymentStatus |-> "paid",
      tsaDigits |-> 0,
      paidAmount |-> 0,
      currency |-> "GHS",
      exchangeRate10 |-> 0 ]

\* petroleum import from Nigeria, ATG reading 20% short, everything else in order
ProfilePetroleum ==
    [ BaseDecl EXCEPT
      !.present = {"hsCode", "documents", "atgReadings", "taxes", "declarantTin",
                   "tsaReference"},
      !.hsCode = <<2,7,1,0,1,9,9,0>>,
      !.originCountry = "NG",
      !.ecowasOrigin = TRUE,
      !.value = 100000,
      !.sector = "petroleum",
      !.riskScore = 70,
      !.documents = {"certificate-of-origin"},
      !.atgApplicable = TRUE,
      !.atgCertificate = TRUE,
      !.finalVolume = 4000,
      !.volume = 5000,
      !.weight = 4250,
      !.qualityCertificate = TRUE,
      !.taxes = [NoTaxes EXCEPT !["vat"] = 15000, !["getFund"] = 2500,
                 !["nhil"] = 2500, !["covid"] = 1000, !["excise"] = 15000],
      !.tinDigits = 8,
      !.tsaDigits = 12 ]

\* cotton from China claiming ECOWAS origin, no tax breakdown, no TIN
ProfileTextile ==
    [ BaseDecl EXCEPT
      !.present = {"hsCode"},
      !.hsCode = <<5,2,0,1,0,0,0,0>>,
      !.originCountry = "CN",
      !.ecowasOrigin = TRUE,
      !.value = 2000,
      !.sector = "textiles",
      !.riskScore = 50 ]

\* an object without an hsCode property, shipped from Nigeria
ProfileNoHsCode ==
    [ BaseDecl EXCEPT
      !.present = {"taxes", "declarantTin"},
      !.originCountry = "NG",
      !.value = 1000,
      !.taxes = [NoTaxes EXCEPT !["vat"] = 150, !["getFund"] = 25,
                 !["nhil"] = 25, !["covid"] = 10, !["importDuty"] = 50],
      !.tinDigits = 7 ]

\* vehicle import whose VAT amount arrived as the string "100" instead of 750
ProfileStringTax ==
    [ BaseDecl EXCEPT
      !.present = {"hsCode", "taxes", "declarantTin", "tsaReference"},
      !.hsCode = <<8,7,0,3,2,3,0,0>>,
      !.originCountry = "NG",
      !.value = 5000,
      !.sector = "vehicles",
      !.riskScore = 30,
      !.taxes = [NoTaxes EXCEPT !["vat"] = 100, !["getFund"] = 125,
                 !["nhil"] = 125, !["covid"] = 50, !["importDuty"] = 250],
      !.taxStrings = {"vat"},
      !.tinDigits = 6,
      !.tsaDigits = 12 ]

Profiles == {ProfilePetroleum, ProfileTextile, ProfileNoHsCode, ProfileStringTax}

Has(d, f) == f \in d.present

\* declaration.id || declaration.declarationId
DeclId(d) == d.id

(* ----------------------------- agents ---------------------------------- *)
AgentTypes == <<"ecowas-origin", "petroleum-atg", "tax-compliance", "tsa-reconciliation">>

Finding(t, sev) == [type |-> t, severity |-> sev]

\* generateResult; metadata keeps the only property aggregation reads that an
\* agent ever sets (estimatedShortfall; 0 and undefined are both falsy there)
generateResult(agentType, declarationId, hasViolation, riskScore, findings, shortfall) ==
    [ agentType |-> agentType,
      declarationId |-> declarationId,
      hasViolation |-> hasViolation,
      riskScore |-> riskScore,
      findings |-> findings,
      estimatedShortfall |-> shortfall ]

NoResult == generateResult("none", "", FALSE, 0, <<>>, 0)

Returned(r) == [thrown |-> FALSE, result |-> r]

Thrown == [thrown |-> TRUE, result |-> NoResult]

ecowasCountries == {"NG", "BJ", "CI", "BF", "ML", "NE", "SN", "SL", "TG"}

\* a membership test that also takes Ghana for a member
isEcowaSCountryOrGhana(country) == country \in ecowasCountries \cup {"GH"}

isEcowaSCountry(country) == country \in ecowasCountries

isHighRiskHSCode(hsCode) ==
    \E p \in {<<5,2,0,1>>, <<5,2,0,3>>, <<6,2,0,3>>, <<6,2,0,4>>, <<6,4,0,3>>} :
        startsWith(hsCode, p)

\* checkSuspiciousPatterns returns a pattern object or null
checkSuspiciousPatterns(d) ==
    \/ (d.destinationCountry = "GH" /\ d.originCountry = "CN" /\ d.ecowasOrigin)
    \/ ("AE" \in d.transitCountries /\ d.ecowasOrigin)

\* market value multipliers, times 10
marketValueMultipliers ==
    << <<<<5,2,0,1>>, 13>>, <<<<5,2,0,3>>, 14>>, <<<<6,2,0,3>>, 15>>,
       <<<<6,2,0,4>>, 15>>, <<<<6,4,0,3>>, 16>> >>

\* value < value * multiplier * 0.8 for the first matching pattern
isUnderValued(d) ==
    LET hits == {i \in 1..Len(marketValueMultipliers) :
                    startsWith(d.hsCode, marketValueMultipliers[i][1])}
    IN  IF hits = {} THEN FALSE
        ELSE LET i == CHOOSE j \in hits : \A k \in hits : j <= k
             IN  d.value * 100 < d.value * marketValueMultipliers[i][2] * 8

verifyDocuments(d) ==
    IF ~Has(d, "documents") \/ "certificate-of-origin" \notin d.documents
    THEN <<Finding("missing-document", "high")>>
    ELSE <<>>

ECOWASOriginAnalyze(d) ==
    LET claim == d.ecowasOrigin
        fraud == claim /\ ~isEcowaSCountry(d.originCountry)
        suspicious == claim /\ Has(d, "hsCode") /\ d.hsCode # <<>>
                      /\ isHighRiskHSCode(d.hsCode) /\ checkSuspiciousPatterns(d)
        \* isUnderValued calls hsCode.startsWith: a TypeError without hsCode
        valueThrows == claim /\ d.value # 0 /\ ~Has(d, "hsCode")
        under == claim /\ d.value # 0 /\ Has(d, "hsCode") /\ isUnderValued(d)
        docs == verifyDocuments(d)
        findings == (IF fraud THEN <<Finding("origin-fraud", "critical")>> ELSE <<>>)
                    \o (IF suspicious THEN <<Finding("suspicious-pattern", "high")>> ELSE <<>>)
                    \o (IF under THEN <<Finding("under-valuation", "medium")>> ELSE <<>>)
                    \o docs
        risk == (IF fraud THEN 40 ELSE 0) + (IF suspicious THEN 25 ELSE 0)
                + (IF under THEN 20 ELSE 0) + Len(docs) * 10
    IN  IF valueThrows THEN Thrown
        ELSE Returned(generateResult("ecowas-origin", DeclId(d),
                                     fraud \/ suspicious \/ under,
                                     Min(100, risk), findings, 0))

petroleumHSCodes == {<<2,7,0,9>>, <<2,7,1,0>>, <<2,7,1,1>>, <<2,7,1,3>>}

isPetroleum(hsCode) == \E code \in petroleumHSCodes : startsWith(hsCode, code)

checkATGCompliance(d) ==
    (IF ~d.atgCertificate THEN <<Finding("missing-atg-certificate", "critical")>> ELSE <<>>)
    \o (IF Has(d, "atgReadings") /\ d.finalVolume * 100 < d.volume * 95
        THEN <<Finding("atg-shortfall", "critical")>> ELSE <<>>)

\* |weight - volume * 0.85| > volume * 0.85 * 0.1, scaled by 1000
analyzeVolumeWeight(d) ==
    IF Abs(d.weight * 1000 - d.volume * 850) > d.volume * 85
    THEN <<Finding("volume-weight-discrepancy", "high")>> ELSE <<>>

\* excise rate per mille, first matching six-digit prefix
calculateExciseDuty1000(d) ==
    IF startsWith(d.hsCode, <<2,7,0,9,0,0>>) THEN d.value * 200
    ELSE IF startsWith(d.hsCode, <<2,7,1,0,1,9>>) THEN d.value * 150
    ELSE IF startsWith(d.hsCode, <<2,7,1,1,1,2>>) THEN d.value * 100
    ELSE IF startsWith(d.hsCode, <<2,7,1,1,1,9>>) THEN d.value * 100
    ELSE 0

\* expected amount of one tax line, times 1000
expectedTax1000(d, k) ==
    CASE k = "vat" -> d.value * 150
      [] k = "getFund" -> d.value * 25
      [] k = "nhil" -> d.value * 25
      [] k = "covid" -> d.value * 10
      [] k = "importDuty" -> IF d.ecowasOrigin THEN 0 ELSE d.value * 50
      [] k = "excise" -> calculateExciseDuty1000(d)

\* |actual - expected| > expected * pct / 100
taxMismatch(d, k, pct) ==
    Abs(d.taxes[k] * 1000 - expectedTax1000(d, k)) * 100 > expectedTax1000(d, k) * pct

petroleumTaxKeys == <<"vat", "getFund", "nhil", "covid", "excise">>

complianceTaxKeys == <<"vat", "getFund", "nhil", "covid", "importDuty">>

\* the keys, in order, whose stated amount is outside the tolerance
mismatchedKeys(d, keys, pct) ==
    SelectSeqBy(keys, {k \in TaxKeys : taxMismatch(d, k, pct)})

\* actual.toFixed(2) is evaluated for every mismatched line; a string has no toFixed
toFixedThrows(d, keys, pct) ==
    Has(d, "taxes") /\ \E i \in 1..Len(keys) :
        keys[i] \in d.taxStrings /\ taxMismatch(d, keys[i], pct)

checkPetroleumTaxes(d) ==
    IF Has(d, "taxes")
    THEN [i \in 1..Len(mismatchedKeys(d, petroleumTaxKeys, 5)) |->
             Finding("tax-discrepancy", "medium")]
    ELSE <<>>

checkQualitySpecifications(d) ==
    IF ~d.qualityCertificate
    THEN <<Finding("missing-quality-certificate", "medium")>> ELSE <<>>

\* shortfall * value / volume; the profiles keep the quotient whole
calculateShortfall(d) ==
    IF Has(d, "atgReadings") /\ d.volume # 0
    THEN IF d.volume - d.finalVolume > 0
         THEN ((d.volume - d.finalVolume) * d.value) \div d.volume ELSE 0
    ELSE 0

PetroleumATGAnalyze(d) ==
    IF ~Has(d, "hsCode") THEN Thrown
    ELSE IF ~isPetroleum(d.hsCode)
    THEN Returned(generateResult("petroleum-atg", DeclId(d), FALSE, 0, <<>>, 0))
    ELSE
    LET atg == IF d.atgApplicable THEN checkATGCompliance(d)
               ELSE <<Finding("atg-not-applied", "high")>>
        atgRisk == IF d.atgApplicable THEN Len(atg) * 15 ELSE 30
        vw == IF d.volume # 0 /\ d.weight # 0 THEN analyzeVolumeWeight(d) ELSE <<>>
        tax == checkPetroleumTaxes(d)
        quality == checkQualitySpecifications(d)
        risk == atgRisk + Len(vw) * 20 + Len(tax) * 10 + Len(quality) * 15
    IN  IF toFixedThrows(d, petroleumTaxKeys, 5) THEN Thrown
        ELSE Returned(generateResult("petroleum-atg", DeclId(d), Len(atg) > 0,
                                     Min(100, risk), atg \o vw \o tax \o quality,
                                     calculateShortfall(d)))

validateAllTaxes(d) ==
    IF Has(d, "taxes")
    THEN LET keys == mismatchedKeys(d, complianceTaxKeys, 2)
         IN  [i \in 1..Len(keys) |->
                 Finding("tax-calculation-error",
                         IF Abs(d.taxes[keys[i]] * 1000 - expectedTax1000(d, keys[i])) * 10
                              > expectedTax1000(d, keys[i])
                         THEN "high" ELSE "medium")]
    ELSE <<Finding("missing-tax-breakdown", "critical")>>

\* /^TIN\d{7,10}$/ on a TIN made of "TIN" and tinDigits digits
validateTIN(d) ==
    IF ~Has(d, "declarantTin") THEN <<Finding("missing-tin", "critical")>>
    ELSE IF d.tinDigits \notin 7..10 THEN <<Finding("invalid-tin-format", "high")>>
    ELSE <<>>

validExemptions ==
    {"diplomatic", "un-agency", "government", "educational", "religious", "charitable"}

validateExemptions(d) ==
    LET bad == SelectSeqBy(d.exemptions, {x \in Range(d.exemptions) : x \notin validExemptions})
    IN  [i \in 1..Len(bad) |-> Finding("invalid-exemption", "high")]

verifyPayments(d) ==
    IF d.paymentStatus # "paid" /\ d.value > 100000
    THEN <<Finding("unpaid-high-value", "high")>> ELSE <<>>

GhanaTaxComplianceAnalyze(d) ==
    LET tax == validateAllTaxes(d)
        tin == validateTIN(d)
        ex == validateExemptions(d)
        pay == verifyPayments(d)
        findings == tax \o tin \o ex \o pay
        risk == Len(tax) * 12 + Len(tin) * 15 + Len(ex) * 20 + Len(pay) * 10
    IN  IF toFixedThrows(d, complianceTaxKeys, 2) THEN Thrown
        ELSE Returned(generateResult("tax-compliance", DeclId(d), Len(findings) > 0,
                                     Min(100, risk), findings, 0))

\* /^TSA\d{12}$/ on a reference made of "TSA" and tsaDigits digits
verifyTSAPayments(d) ==
    IF ~Has(d, "tsaReference") THEN <<Finding("missing-tsa-reference", "critical")>>
    ELSE IF d.tsaDigits # 12 THEN <<Finding("invalid-tsa-reference", "high")>>
    ELSE <<>>

\* total tax liability, times 1000
calculateTotalTaxLiability1000(d) ==
    d.value * 150 + d.value * 25 + d.value * 25 + d.value * 10
    + (IF d.ecowasOrigin THEN 0 ELSE d.value * 50)

reconcileBankPayments(d) ==
    IF Has(d, "paymentConfirmation")
       /\ Abs(d.paidAmount * 1000 - calculateTotalTaxLiability1000(d)) * 100
            > calculateTotalTaxLiability1000(d)
    THEN <<Finding("payment-mismatch", "high")>> ELSE <<>>

\* |rate - 12.5| > 12.5 * 0.02, with the rate times 10
validateExchangeRates(d) ==
    IF d.currency # "GHS" /\ d.exchangeRate10 # 0 /\ Abs(d.exchangeRate10 - 125) * 2 > 5
    THEN <<Finding("exchange-rate-discrepancy", "medium")>> ELSE <<>>

TSAPaymentReconciliationAnalyze(d) ==
    LET tsa == verifyTSAPayments(d)
        bank == reconcileBankPayments(d)
        fx == validateExchangeRates(d)
        findings == tsa \o bank \o fx
        risk == Len(tsa) * 25 + Len(bank) * 15 + Len(fx) * 10
    IN  Returned(generateResult("tsa-reconciliation", DeclId(d), Len(findings) > 0,
                                Min(100, risk), findings, 0))

\* agent.analyze(declaration) for the agent registered under agentType
analyze(agentType, d) ==
    CASE agentType = "ecowas-origin" -> ECOWASOriginAnalyze(d)
      [] agentType = "petroleum-atg" -> PetroleumATGAnalyze(d)
      [] agentType = "tax-compliance" -> GhanaTaxComplianceAnalyze(d)
      [] agentType = "tsa-reconciliation" -> TSAPaymentReconciliationAnalyze(d)

(* ------------------------- configuration ------------------------------- *)
\* the targetFilters objects tried; `present` lists the optional filters given
NoFilters ==
    [ present |-> {}, hsCodes |-> <<>>, shipmentIds |-> {}, declarationIds |-> {},
      dateStart |-> 0, dateEnd |-> 0, countries |-> {}, riskThreshold |-> 0,
      sectors |-> {} ]

HsCodeFilter == [NoFilters EXCEPT !.present = {"hsCodes"}, !.hsCodes = << <<2,7,1,0>> >>]

ScopeOptions ==
    { [scope |-> "all", targetFilters |-> NoFilters],
      [scope |-> "hs-codes", targetFilters |-> HsCodeFilter],
      [scope |-> "hs-codes", targetFilters |-> NoFilters] }

AgentConfigs ==
    [ enableECOWASAgent : BOOLEAN, enablePetroleumAgent : BOOLEAN,
      enableTaxAgent : BOOLEAN, enableTSAgent : BOOLEAN ]

Configs ==
    { [ scope |-> so.scope, targetFilters |-> so.targetFilters, agentConfig |-> ac,
        parallelExecution |-> par, maxConcurrency |-> mc ] :
      so \in ScopeOptions, ac \in AgentConfigs, par \in BOOLEAN,
      mc \in 1..MaxConcurrencyBound }

DeclIds == <<"D1", "D2", "D3", "D4", "D5", "D6">>

\* the declaration lists tried: every list of at most MaxDecls profiles, the
\* i-th declaration carrying id Di, shipment Si and day i
DeclLists ==
    UNION { { [i \in 1..n |-> [f[i] EXCEPT !.id = DeclIds[i], !.date = i,
                                        !.shipmentId = <<"S1", "S1", "S2", "S2", "S3", "S3">>[i]]] :
              f \in [1..n -> Profiles] } : n \in 0..MaxDecls }

(* --------------------------- orchestrator ------------------------------ *)
\* every registered agent, whatever the enable flags say
getRegisteredAgents(config) == AgentTypes

\* the enabled agents in Map insertion order
getEnabledAgents(config) ==
    SelectSeqBy(AgentTypes,
        (IF config.agentConfig.enableECOWASAgent THEN {"ecowas-origin"} ELSE {})
        \cup (IF config.agentConfig.enablePetroleumAgent THEN {"petroleum-atg"} ELSE {})
        \cup (IF config.agentConfig.enableTaxAgent THEN {"tax-compliance"} ELSE {})
        \cup (IF config.agentConfig.enableTSAgent THEN {"tsa-reconciliation"} ELSE {}))

\* declaration.hsCode.startsWith is a TypeError when hsCode is undefined
shouldAgentRunThrows(agentType, d) ==
    agentType = "petroleum-atg" /\ ~Has(d, "hsCode")

shouldAgentRun(agentType, d) ==
    CASE agentType = "ecowas-origin" -> d.ecowasOrigin \/ isEcowaSCountry(d.originCountry)
      [] agentType = "petroleum-atg" -> isPetroleum(d.hsCode)
      [] agentType = "tax-compliance" -> TRUE
      [] agentType = "tsa-reconciliation" -> d.value > 1000
      [] OTHER -> TRUE

\* filterDeclarations throws iff some scope callback dereferences a missing hsCode
filterThrows(declarations, config) ==
    /\ config.scope = "hs-codes"
    /\ "hsCodes" \in config.targetFilters.present
    /\ config.targetFilters.hsCodes # <<>>
    /\ \E i \in 1..Len(declarations) : ~Has(declarations[i], "hsCode")

scopeAccepts(d, config) ==
    LET tf == config.targetFilters
    IN  CASE config.scope = "hs-codes" /\ "hsCodes" \in tf.present ->
               \E i \in 1..Len(tf.hsCodes) : startsWith(d.hsCode, tf.hsCodes[i])
          [] config.scope = "shipments" /\ "shipmentIds" \in tf.present ->
               d.shipmentId \in tf.shipmentIds
          [] config.scope = "declarations" /\ "declarationIds" \in tf.present ->
               DeclId(d) \in tf.declarationIds
          [] OTHER -> TRUE

\* the common filters composed as a logical OR: one satisfied filter is enough
commonAcceptsAnyOne(d, config) ==
    LET tf == config.targetFilters
        common == tf.present \cap {"dateRange", "countries", "riskThreshold", "sectors"}
    IN  \/ common = {}
        \/ "dateRange" \in common /\ d.date >= tf.dateStart /\ d.date <= tf.dateEnd
        \/ "countries" \in common /\
              (d.originCountry \in tf.countries \/ d.destinationCountry \in tf.countries)
        \/ "riskThreshold" \in common /\ d.riskScore >= tf.riskThreshold
        \/ "sectors" \in common /\ d.sector \in tf.sectors

\* the four common filters, each applied only when present in targetFilters
commonAccepts(d, config) ==
    LET tf == config.targetFilters
    IN  /\ "dateRange" \in tf.present => (d.date >= tf.dateStart /\ d.date <= tf.dateEnd)
        /\ "countries" \in tf.present =>
              (d.originCountry \in tf.countries \/ d.destinationCountry \in tf.countries)
        /\ "riskThreshold" \in tf.present => d.riskScore >= tf.riskThreshold
        /\ "sectors" \in tf.present => d.sector \in tf.sectors

\* the declarations kept, in input order (only used when filterThrows is false)
filterDeclarations(declarations, config) ==
    SelectSeqBy(declarations,
        {d \in Range(declarations) : scopeAccepts(d, config) /\ commonAccepts(d, config)})

RECURSIVE chunkFrom(_, _, _)
chunkFrom(array, chunkSize, i) ==
    IF i < Len(array)
    THEN <<SubSeq(array, i + 1, Min(i + chunkSize, Len(array)))>>
         \o chunkFrom(array, chunkSize, i + chunkSize)
    ELSE <<>>

RECURSIVE chunkFromFull(_, _, _)
chunkFromFull(array, chunkSize, i) ==
    IF i + chunkSize <= Len(array)
    THEN <<SubSeq(array, i + 1, i + chunkSize)>> \o chunkFromFull(array, chunkSize, i + chunkSize)
    ELSE <<>>

\* chunkArray with the loop bound `i + chunkSize <= array.length`: a last,
\* shorter chunk is lost
chunkArrayDropTail(array, chunkSize) == chunkFromFull(array, chunkSize, 0)

\* chunkArray for a chunkSize of at least 1
chunkArray(array, chunkSize) == chunkFrom(array, chunkSize, 0)

\* the loop `for (let i = 0; i < array.length; i += chunkSize)` ends: at once on
\* an empty array, and otherwise only when i grows
chunkArrayReturns(array, chunkSize) == Len(array) = 0 \/ chunkSize >= 1

(* ------------------------- execution record ---------------------------- *)
EmptyMap == [x \in {} |-> 0]

\* the AuditExecutionResult created at the top of executeAudit
newExecution(executionId, declarations) ==
    [ executionId |-> executionId,
      status |-> "running",
      hasEndTime |-> FALSE,
      totalDeclarations |-> Len(declarations),
      processedDeclarations |-> 0,
      failedDeclarations |-> 0,
      agentResults |-> <<>>,
      ghanaMetrics |->
          [ totalViolations |-> 0,
            totalRecoveryAmount |-> 0,
            sectoralBreakdown |-> EmptyMap,
            violationTypes |-> EmptyMap,
            riskDistribution |-> [low |-> 0, medium |-> 0, high |-> 0, critical |-> 0],
            complianceRate |-> 0 ],
      errors |-> <<>> ]

ErrorEntry(declarationId, agentType, message) ==
    [declarationId |-> declarationId, agentType |-> agentType, error |-> message]

\* agentResults.push(...results); processedDeclarations++
mergeResults(e, results) ==
    [e EXCEPT !.agentResults = @ \o results, !.processedDeclarations = @ + 1]

\* recordFailure that also counts the failed declaration as processed
recordFailureAlsoProcessed(e, d) ==
    [e EXCEPT !.failedDeclarations = @ + 1, !.processedDeclarations = @ + 1,
              !.errors = Append(@, ErrorEntry(DeclId(d), "system", "TypeError"))]

\* failedDeclarations++; errors.push({declarationId, agentType: 'system', ...})
recordFailure(e, d) ==
    [e EXCEPT !.failedDeclarations = @ + 1,
              !.errors = Append(@, ErrorEntry(DeclId(d), "system", "TypeError"))]

\* a catch block that swallows the error and leaves the record as it is
failExecutionSilently(e) == e

\* the catch block of executeAudit
failExecution(e) ==
    [e EXCEPT !.status = "failed", !.hasEndTime = TRUE,
              !.errors = Append(@, ErrorEntry("system", "system", "TypeError"))]

(* ---------------------------- aggregation ------------------------------ *)
\* v.metadata?.recoveryAmount || v.metadata?.estimatedShortfall || 0; no agent
\* sets recoveryAmount
recoveryOf(r) == r.estimatedShortfall

\* result.metadata?.sector || 'unknown'; no agent sets metadata.sector
sectorOf(r) == "unknown"

\* the bucket picked from result.riskLevel; an AgentResult has a riskScore and
\* no riskLevel, and undefined >= n is false for every n
riskBucket(r) == "low"

violationsOf(results) == SelectSeq(results, LAMBDA r : r.hasViolation)

RECURSIVE findingTypes(_)
\* the type of every finding of every result, in order
findingTypes(results) ==
    IF results = <<>> THEN <<>>
    ELSE [i \in 1..Len(Head(results).findings) |-> Head(results).findings[i].type]
         \o findingTypes(Tail(results))

CountOf(s, x) == Cardinality({i \in 1..Len(s) : s[i] = x})

groupResultsBySector(results) ==
    [sec \in {sectorOf(results[i]) : i \in 1..Len(results)} |->
        SelectSeq(results, LAMBDA r : sectorOf(r) = sec)]

calculateGhanaMetrics(e) ==
    LET results == e.agentResults
        violations == violationsOf(results)
        groups == groupResultsBySector(results)
        types == findingTypes(violations)
        buckets == [i \in 1..Len(results) |-> riskBucket(results[i])]
    IN  [ totalViolations |-> Len(violations),
          totalRecoveryAmount |->
              SeqSum([i \in 1..Len(violations) |-> recoveryOf(violations[i])]),
          sectoralBreakdown |->
              [sec \in DOMAIN groups |->
                  LET sv == violationsOf(groups[sec])
                  IN  [ violations |-> Len(sv),
                        recovery |-> SeqSum([i \in 1..Len(sv) |-> recoveryOf(sv[i])]),
                        declarations |-> Len(groups[sec]) ]],
          violationTypes |->
              [t \in Range(types) |->
                  (IF t \in DOMAIN e.ghanaMetrics.violationTypes
                   THEN e.ghanaMetrics.violationTypes[t] ELSE 0) + CountOf(types, t)],
          riskDistribution |->
              [b \in {"low", "medium", "high", "critical"} |->
                  e.ghanaMetrics.riskDistribution[b] + CountOf(buckets, b)],
          \* a percentage, kept to two decimals
          complianceRate |->
              IF Len(results) > 0
              THEN ((Len(results) - Len(violations)) * 10000) \div Len(results)
              ELSE 0 ]

\* calculateFinalMetrics; the timing figures are not modelled
calculateFinalMetrics(e) == [e EXCEPT !.ghanaMetrics = calculateGhanaMetrics(e)]

\* the end of the try block of executeAudit
completeExecution(e) ==
    [calculateFinalMetrics(e) EXCEPT !.status = "completed", !.hasEndTime = TRUE]

(* ------------------- processDeclaration as a coroutine ----------------- *)
NoPending == Returned(NoResult)

RECURSIVE scanAgents(_, _, _)
\* the for loop of processDeclaration from its j-th enabled agent up to the
\* next analyze call, a throw of shouldAgentRun, or the end of the loop
scanAgents(enabled, j, d) ==
    IF j > Len(enabled) THEN [kind |-> "end", j |-> j]
    ELSE IF shouldAgentRunThrows(enabled[j], d) THEN [kind |-> "throw", j |-> j]
    ELSE IF shouldAgentRun(enabled[j], d) THEN [kind |-> "run", j |-> j]
    ELSE scanAgents(enabled, j + 1, d)

NewUnit(i) ==
    [ d |-> i, next |-> 1, pendingType |-> "", pending |-> NoPending,
      results |-> <<>>, st |-> "new" ]

\* one segment of processDeclaration: take the outcome of the awaited analyze
\* (push the result, or log the error and go on), then run up to the next await
processDeclaration(u, d, config) ==
    LET enabled == getEnabledAgents(config)
        kept == IF u.pendingType # "" /\ ~u.pending.thrown
                THEN Append(u.results, u.pending.result) ELSE u.results
        sc == scanAgents(enabled, u.next, d)
    IN  CASE sc.kind = "end" ->
               [u EXCEPT !.next = sc.j, !.pendingType = "", !.pending = NoPending,
                         !.results = kept, !.st = "fulfilled"]
          [] sc.kind = "throw" ->
               [u EXCEPT !.next = sc.j, !.pendingType = "", !.pending = NoPending,
                         !.results = <<>>, !.st = "rejected"]
          [] sc.kind = "run" ->
               [u EXCEPT !.next = sc.j + 1, !.pendingType = enabled[sc.j],
                         !.pending = analyze(enabled[sc.j], d),
                         !.results = kept, !.st = "awaiting"]

(* ------------------------------ state ---------------------------------- *)
VARIABLES
    executions,       \* GhanaAuditRunner.executions, in insertion order
    config,           \* the config argument of the executeAudit call in progress
    declarations,     \* its declarations argument
    pc,               \* where that call stands: idle, seqAwait, parAwait, awaitMode, done
    filtered,         \* filteredDeclarations
    chunks,           \* executeParallel: the chunks, as indices into filtered
    position,         \* index of the declaration (sequential) or chunk (parallel) in hand
    units,            \* the processDeclaration calls in flight, one per declaration
    analyzeCalls,     \* history: <<declaration id, agent type>> of every analyze call
    agentThrows,      \* history: the analyze calls whose rejection the catch has handled
    cancelInfo,       \* history: what the execution looked like when cancel returned true
    lastCancelReturn, \* the value the last cancelExecution call returned
    agentReturns,     \* history: the analyze calls whose result processDeclaration has taken
    progressCallbacks, \* GhanaAuditRunner.progressCallbacks for the call in progress:
                      \* "none", or how the registered callback behaves (returns, throws)
    progressUnits,    \* history: the positions for which the callback has been invoked
    rulePack,         \* simulation: the rules of the pack handed to evaluateDeclaration
    simDeclaration,   \* simulation: the declaration handed to it
    evaluation,       \* simulation: what evaluateDeclaration returned
    rulePacks,        \* GhanaRulePackService.rulePacks, in Map insertion order
    packsCreated,     \* how many packs createRulePack has stored
    agentInput,       \* the declaration handed to one agent's analyze on its own
    agentOutput,      \* what that call returned, or that it threw
    executionQueue,   \* ProductionAuditEngine.executionQueue
    activeExecutions, \* the keys of ProductionAuditEngine.activeExecutions
    submitted,        \* how many executeAuditWithMonitoring calls have been made
    engineRunning,    \* the ids whose processQueue call is awaiting executeAudit
    runnerExecutions, \* the runner's records of those audits: its own id and status
    promises,         \* the state of the promise each submission got back
    auditEvents,      \* eventHistory, as the set of <<executionId, type>> emitted
    queueTimers,      \* pending setTimeout(() => this.processQueue(), 100) callbacks
    isShuttingDown,   \* ProductionAuditEngine.isShuttingDown
    cancelRequests,   \* history: <<id, where the execution stood>> of each cancel request
    lastStarted,      \* history: the queue item processQueue shifted last
    exitCode          \* "none" while the process lives, else the code of process.exit

\* the variables of the rule-pack simulation, which the orchestrator never touches
simVars == << rulePack, simDeclaration, evaluation >>

\* the rule-pack store and the single-agent harness
storeVars == << rulePacks, packsCreated >>
agentVars == << agentInput, agentOutput >>

\* the variables of the production engine
engineVars == << executionQueue, activeExecutions, submitted, engineRunning,
                 runnerExecutions, promises, auditEvents, queueTimers,
                 isShuttingDown, cancelRequests, lastStarted, exitCode >>

\* the variables of one executeAudit call
auditVars == << executions, config, declarations, pc, filtered, chunks, position, units,
                analyzeCalls, agentThrows, cancelInfo, lastCancelReturn, agentReturns,
                progressCallbacks, progressUnits >>

vars == << executions, config, declarations, pc, filtered, chunks, position, units,
           analyzeCalls, agentThrows, cancelInfo, lastCancelReturn, agentReturns,
           progressCallbacks, progressUnits, rulePack, simDeclaration, evaluation,
           rulePacks, packsCreated, agentInput, agentOutput,
           executionQueue, activeExecutions, submitted, engineRunning,
           runnerExecutions, promises, auditEvents, queueTimers,
           isShuttingDown, cancelRequests, lastStarted, exitCode >>

IdleConfig ==
    [ scope |-> "all", targetFilters |-> NoFilters,
      agentConfig |-> [ enableECOWASAgent |-> TRUE, enablePetroleumAgent |-> TRUE,
                        enableTaxAgent |-> TRUE, enableTSAgent |-> TRUE ],
      parallelExecution |-> FALSE, maxConcurrency |-> 1 ]

NoEvaluation == [done |-> FALSE, hasViolation |-> FALSE, riskScore |-> 0]

\* no analyze call made yet
\* a queue item: its timestamp is the number of the submission
QueueItem(executionId, priority, timestamp) ==
    [executionId |-> executionId, priority |-> priority, timestamp |-> timestamp]

NoItem == QueueItem("", "", 0)

NoAgentCall == [called |-> FALSE, thrown |-> FALSE, result |-> NoResult]

\* the pack the constructor stores: 'ghana-rule-pack-v1', active
DefaultRulePack == [id |-> "ghana-rule-pack-v1", isActive |-> TRUE]

NoCancel == [done |-> FALSE, processed |-> 0, results |-> 0, dispatched |-> {}]

cur == Len(executions)

Init ==
    /\ executions = <<>>
    /\ config = IdleConfig
    /\ declarations = <<>>
    /\ pc = "idle"
    /\ filtered = <<>>
    /\ chunks = <<>>
    /\ position = 0
    /\ units = <<>>
    /\ analyzeCalls = {}
    /\ agentThrows = {}
    /\ cancelInfo = NoCancel
    /\ lastCancelReturn = "none"
    /\ agentReturns = {}
    /\ progressCallbacks = "none"
    /\ progressUnits = {}
    /\ rulePack = <<>>
    /\ simDeclaration = BaseDecl
    /\ evaluation = NoEvaluation
    /\ rulePacks = <<DefaultRulePack>>
    /\ packsCreated = 0
    /\ agentInput = BaseDecl
    /\ agentOutput = NoAgentCall
    /\ executionQueue = <<>>
    /\ activeExecutions = {}
    /\ submitted = 0
    /\ engineRunning = {}
    /\ runnerExecutions = {}
    /\ promises = <<>>
    /\ cancelRequests = {}
    /\ lastStarted = NoItem
    /\ auditEvents = {}
    /\ queueTimers = 0
    /\ isShuttingDown = FALSE
    /\ exitCode = "none"

\* the declarations whose processDeclaration call has been started
Dispatched ==
    IF pc = "seqAwait" THEN {filtered[i].id : i \in 1..position}
    ELSE IF pc = "parAwait"
         THEN {filtered[i].id : i \in UNION {Range(chunks[k]) : k \in 1..position}}
         ELSE {filtered[i].id : i \in 1..Len(filtered)}

\* start processDeclaration for the declarations of indices idx, each up to its first await
startUnits(idx, decls, cfg) ==
    [i \in 1..Len(idx) |-> processDeclaration(NewUnit(idx[i]), decls[idx[i]], cfg)]

\* the analyze calls the units us are suspended on
pendingCalls(us, decls) ==
    {<<decls[us[i].d].id, us[i].pendingType>> : i \in {j \in 1..Len(us) : us[j].st = "awaiting"}}

\* Promise.race in place of Promise.all: the first settled wrapper is enough
anySettled(us) == \E i \in 1..Len(us) : us[i].st \in {"settled", "settledNull"}

\* Promise.all(promises) resolves: every wrapper of the batch has settled
allSettled(us) == \A i \in 1..Len(us) : us[i].st \in {"settled", "settledNull"}

\* the kinds of progressCallback argument: omitted, a function that returns, a
\* function that throws
ProgressCallbackKinds == {"none", "returns", "throws"}

\* updateProgress lets the exception of a callback out
callbackEscapesUncaught(cb) == cb = "throws"

\* updateProgress calls each callback inside try/catch and only logs what it throws
callbackEscapes(cb) == FALSE

\* updateProgress for the unit at position pos: the units the callback has been
\* invoked for (none when no callback is registered for the execution)
updateProgress(invoked, cb, pos) == IF cb = "none" THEN invoked ELSE invoked \cup {pos}

\* results.forEach(result => { if (result) { push; processedDeclarations++;
\* updateProgress } }): an exception leaving updateProgress ends the forEach
RECURSIVE mergeBatch(_, _, _)
mergeBatch(e, us, cb) ==
    IF us = <<>> THEN e
    ELSE IF Head(us).st = "settled"
         THEN IF callbackEscapes(cb)
              THEN mergeResults(e, Head(us).results)
              ELSE mergeBatch(mergeResults(e, Head(us).results), Tail(us), cb)
         ELSE mergeBatch(e, Tail(us), cb)

\* the batch has a result to merge, so that its forEach calls updateProgress
batchHasResult(us) == \E i \in 1..Len(us) : us[i].st = "settled"

(* ----------------------------- actions --------------------------------- *)
\* executeAudit(cfg, decls) from its first line to its first await
StartAudit(cfg, decls, cb) ==
    LET e == newExecution(<<"exec-1", "exec-2", "exec-3">>[cur + 1], decls)
        f == filterDeclarations(decls, cfg)
        idx == [i \in 1..Len(f) |-> i]
        cs == chunkArray(idx, cfg.maxConcurrency)
        first == IF cfg.parallelExecution
                 THEN (IF cs = <<>> THEN <<>> ELSE startUnits(cs[1], f, cfg))
                 ELSE (IF f = <<>> THEN <<>> ELSE startUnits(<<1>>, f, cfg))
    IN  /\ config' = cfg
        /\ declarations' = decls
        /\ agentThrows' = {}
        /\ cancelInfo' = NoCancel
        /\ lastCancelReturn' = "none"
        /\ agentReturns' = {}
        /\ progressUnits' = {}
        /\ UNCHANGED << simVars, storeVars, agentVars, engineVars >>
        /\ IF filterThrows(decls, cfg)
           THEN /\ executions' = Append(executions, failExecution(e))
                /\ pc' = "done"
                /\ filtered' = <<>>
                /\ chunks' = <<>>
                /\ position' = 0
                /\ units' = <<>>
                /\ analyzeCalls' = {}
           ELSE IF cfg.parallelExecution /\ ~chunkArrayReturns(idx, cfg.maxConcurrency)
           THEN \* chunkArray pushes chunks without end, inside this synchronous
                \* call: the process runs out of memory in it or, on a heap
                \* that can hold 2^32 - 1 chunks, push throws a RangeError
                \* that the catch block of executeAudit takes
                /\ filtered' = f
                /\ chunks' = <<>>
                /\ position' = 0
                /\ units' = <<>>
                /\ analyzeCalls' = {}
                /\ \/ /\ executions' = Append(executions,
                                            [e EXCEPT !.totalDeclarations = Len(f)])
                      /\ pc' = "chunking"
                   \/ /\ executions' = Append(executions,
                              [e EXCEPT !.totalDeclarations = Len(f),
                                        !.status = "failed", !.hasEndTime = TRUE,
                                        !.errors = Append(@, ErrorEntry("system", "system",
                                                                        "RangeError"))])
                      /\ pc' = "done"
           ELSE /\ executions' = Append(executions, [e EXCEPT !.totalDeclarations = Len(f)])
                /\ filtered' = f
                /\ chunks' = IF cfg.parallelExecution THEN cs ELSE <<>>
                /\ units' = first
                /\ position' = IF first = <<>> THEN 0 ELSE 1
                /\ pc' = IF first = <<>> THEN "awaitMode"
                         ELSE IF cfg.parallelExecution THEN "parAwait" ELSE "seqAwait"
                /\ analyzeCalls' = pendingCalls(first, f)
        \* removeProgressCallbacks once the call has run to its end
        /\ progressCallbacks' = IF pc' = "done" THEN "none" ELSE cb

ExecuteAudit ==
    /\ pc = "idle"
    /\ executions = <<>>
    /\ \E cfg \in Configs, decls \in DeclLists, cb \in {"none", "returns"} :
          StartAudit(cfg, decls, cb)

\* the awaited analyze of unit i has settled: processDeclaration goes on
ResumeProcessDeclaration(i) ==
    /\ pc \in {"seqAwait", "parAwait"}
    /\ i \in 1..Len(units)
    /\ units[i].st = "awaiting"
    /\ LET u == units[i]
           d == filtered[u.d]
           nu == processDeclaration(u, d, config)
       IN  /\ units' = [units EXCEPT ![i] = nu]
           /\ analyzeCalls' = analyzeCalls \cup pendingCalls(<<nu>>, filtered)
           /\ agentThrows' = IF u.pending.thrown
                             THEN agentThrows \cup {<<d.id, u.pendingType>>}
                             ELSE agentThrows
           /\ agentReturns' = IF u.pending.thrown
                              THEN agentReturns
                              ELSE agentReturns \cup {<<d.id, u.pendingType>>}
    /\ UNCHANGED << executions, config, declarations, pc, filtered, chunks, position,
                    cancelInfo, lastCancelReturn, progressCallbacks, progressUnits >>
    /\ UNCHANGED << simVars, storeVars, agentVars, engineVars >>

\* executeParallel: the async callback of chunk.map resumes after
\* `await this.processDeclaration(...)`, returning the results or running its catch
ParallelUnitSettle(i) ==
    /\ pc = "parAwait"
    /\ i \in 1..Len(units)
    /\ units[i].st \in {"fulfilled", "rejected"}
    /\ IF units[i].st = "fulfilled"
       THEN /\ units' = [units EXCEPT ![i].st = "settled"]
            /\ UNCHANGED executions
       ELSE /\ units' = [units EXCEPT ![i].st = "settledNull"]
            /\ executions' = [executions EXCEPT
                                 ![cur] = recordFailure(@, filtered[units[i].d])]
    /\ UNCHANGED << config, declarations, pc, filtered, chunks, position,
                    analyzeCalls, agentThrows, cancelInfo, lastCancelReturn,
                    agentReturns, progressCallbacks, progressUnits >>
    /\ UNCHANGED << simVars, storeVars, agentVars, engineVars >>

\* executeParallel resumes after `await Promise.all(promises)`: it merges the
\* batch and maps the next chunk, or returns
ParallelBatchMerge ==
    /\ pc = "parAwait"
    /\ allSettled(units)
    /\ progressUnits' = IF batchHasResult(units)
                        THEN updateProgress(progressUnits, progressCallbacks, position)
                        ELSE progressUnits
    /\ IF batchHasResult(units) /\ callbackEscapes(progressCallbacks)
       THEN \* the exception leaves executeParallel: the catch of executeAudit
            /\ executions' = [executions EXCEPT ![cur] =
                                 failExecution(mergeBatch(@, units, progressCallbacks))]
            /\ units' = <<>>
            /\ pc' = "done"
            /\ progressCallbacks' = "none"
            /\ UNCHANGED << position, analyzeCalls >>
       ELSE /\ executions' = [executions EXCEPT ![cur] =
                                 mergeBatch(@, units, progressCallbacks)]
            /\ UNCHANGED progressCallbacks
            /\ IF position < Len(chunks)
               THEN LET nus == startUnits(chunks[position + 1], filtered, config)
                    IN  /\ units' = nus
                        /\ position' = position + 1
                        /\ analyzeCalls' = analyzeCalls \cup pendingCalls(nus, filtered)
                        /\ pc' = pc
               ELSE /\ units' = <<>>
                    /\ pc' = "awaitMode"
                    /\ UNCHANGED << position, analyzeCalls >>
    /\ UNCHANGED << config, declarations, filtered, chunks, agentThrows,
                    cancelInfo, lastCancelReturn, agentReturns >>
    /\ UNCHANGED << simVars, storeVars, agentVars, engineVars >>

\* executeSequential resumes after `await this.processDeclaration(...)`: it merges
\* the results or runs its catch, then calls processDeclaration for the next
\* declaration, or returns
SequentialStep ==
    /\ pc = "seqAwait"
    /\ units[1].st \in {"fulfilled", "rejected"}
    /\ executions' = [executions EXCEPT ![cur] =
                         IF units[1].st = "fulfilled"
                         THEN IF callbackEscapes(progressCallbacks)
                              THEN \* thrown inside the try: the catch runs as well
                                   recordFailure(mergeResults(@, units[1].results),
                                                 filtered[units[1].d])
                              ELSE mergeResults(@, units[1].results)
                         ELSE recordFailure(@, filtered[units[1].d])]
    /\ progressUnits' = IF units[1].st = "fulfilled"
                        THEN updateProgress(progressUnits, progressCallbacks, position)
                        ELSE progressUnits
    /\ IF position < Len(filtered)
       THEN LET nus == startUnits(<<position + 1>>, filtered, config)
            IN  /\ units' = nus
                /\ position' = position + 1
                /\ analyzeCalls' = analyzeCalls \cup pendingCalls(nus, filtered)
                /\ pc' = pc
       ELSE /\ units' = <<>>
            /\ pc' = "awaitMode"
            /\ UNCHANGED << position, analyzeCalls >>
    /\ UNCHANGED << config, declarations, filtered, chunks, agentThrows,
                    cancelInfo, lastCancelReturn, agentReturns, progressCallbacks >>
    /\ UNCHANGED << simVars, storeVars, agentVars, engineVars >>

\* executeAudit resumes after `await this.executeParallel/executeSequential(...)`:
\* final metrics, status 'completed', executions.set, return
FinishAudit ==
    /\ pc = "awaitMode"
    /\ executions' = [executions EXCEPT ![cur] = completeExecution(@)]
    /\ pc' = "done"
    /\ progressCallbacks' = "none"
    /\ UNCHANGED << config, declarations, filtered, chunks, position, units,
                    analyzeCalls, agentThrows, cancelInfo, lastCancelReturn,
                    agentReturns, progressUnits >>
    /\ UNCHANGED << simVars, storeVars, agentVars, engineVars >>

\* cancelExecution(executionId) for the id of a stored execution
CancelExecution(i) ==
    /\ i \in 1..Len(executions)
    /\ IF executions[i].status = "running"
       THEN /\ executions' = [executions EXCEPT ![i].status = "cancelled",
                                                ![i].hasEndTime = TRUE]
            /\ lastCancelReturn' = "true"
            /\ cancelInfo' = [ done |-> TRUE,
                               processed |-> executions[i].processedDeclarations,
                               results |-> Len(executions[i].agentResults),
                               dispatched |-> Dispatched ]
       ELSE /\ lastCancelReturn' = "false"
            /\ UNCHANGED << executions, cancelInfo >>
    /\ UNCHANGED << config, declarations, pc, filtered, chunks, position, units,
                    analyzeCalls, agentThrows, agentReturns, progressCallbacks,
                    progressUnits >>
    /\ UNCHANGED << simVars, storeVars, agentVars, engineVars >>

Next ==
    \/ ExecuteAudit
    \/ \E i \in 1..MaxDecls : ResumeProcessDeclaration(i)
    \/ \E i \in 1..MaxDecls : ParallelUnitSettle(i)
    \/ ParallelBatchMerge
    \/ SequentialStep
    \/ FinishAudit
    \/ \E i \in 1..Len(executions) : CancelExecution(i)

Spec == Init /\ [][Next]_vars

(* ------------------- filterDeclarations on its own ---------------------- *)
\* declarations that differ in the fields the filters read
FilterProfiles ==
    { [BaseDecl EXCEPT !.present = {"hsCode"}, !.hsCode = h, !.originCountry = o,
                       !.riskScore = r, !.sector = sec] :
      h \in {<<2,7,1,0,1,9,9,0>>, <<5,2,0,1,0,0,0,0>>}, o \in {"NG", "CN"},
      r \in {0, 70}, sec \in {"petroleum", "textiles"} }

\* every list of at most MaxDecls of them, the i-th with id Di, day i and
\* shipments alternating between S1 and S2
FilterDeclLists ==
    UNION { { [i \in 1..n |-> [f[i] EXCEPT !.id = DeclIds[i], !.date = i,
                                        !.shipmentId = <<"S1", "S2", "S1", "S2", "S1", "S2">>[i]]] :
              f \in [1..n -> FilterProfiles] } : n \in 0..MaxDecls }

\* scope with its list, and every combination of the common filters
FilterScopes ==
    { [scope |-> "all", present |-> {}],
      [scope |-> "hs-codes", present |-> {"hsCodes"}],
      [scope |-> "shipments", present |-> {"shipmentIds"}],
      [scope |-> "declarations", present |-> {"declarationIds"}] }

FilterConfigs ==
    { [ IdleConfig EXCEPT
        !.scope = so.scope,
        !.targetFilters =
            [ present |-> so.present \cup common,
              hsCodes |-> << <<2,7,1,0>> >>,
              shipmentIds |-> {"S1"},
              declarationIds |-> {"D2", "D3"},
              dateStart |-> 2, dateEnd |-> 3,
              countries |-> {"NG"},
              riskThreshold |-> 50,
              sectors |-> {"petroleum"} ] ] :
      so \in FilterScopes,
      common \in SUBSET {"dateRange", "countries", "riskThreshold", "sectors"} }

\* one call of filterDeclarations(decls, cfg) that returns
FilterDeclarations ==
    /\ pc = "idle"
    /\ \E cfg \in FilterConfigs, decls \in FilterDeclLists :
          /\ ~filterThrows(decls, cfg)
          /\ config' = cfg
          /\ declarations' = decls
          /\ filtered' = filterDeclarations(decls, cfg)
    /\ pc' = "filtered"
    /\ UNCHANGED << executions, chunks, position, units, analyzeCalls, agentThrows,
                    cancelInfo, lastCancelReturn, agentReturns, progressCallbacks,
                    progressUnits >>
    /\ UNCHANGED << simVars, storeVars, agentVars, engineVars >>

NextFilter == FilterDeclarations

SpecFilter == Init /\ [][NextFilter]_vars

(* ------------- the same input run in both execution modes -------------- *)
\* executeAudit with parallelExecution = false
ExecuteAuditSequential ==
    /\ pc = "idle"
    /\ executions = <<>>
    /\ \E cfg \in {c \in Configs : ~c.parallelExecution /\ c.maxConcurrency = 1},
          decls \in DeclLists : StartAudit(cfg, decls, "returns")

\* once that call has returned: executeAudit over the same declarations and the
\* same configuration with parallelExecution = true and some batch size
ExecuteAuditParallel ==
    /\ pc = "done"
    /\ Len(executions) = 1
    /\ \E mc \in 1..MaxConcurrencyBound :
          StartAudit([config EXCEPT !.parallelExecution = TRUE, !.maxConcurrency = mc],
                     declarations, "returns")

NextEq ==
    \/ ExecuteAuditSequential
    \/ ExecuteAuditParallel
    \/ \E i \in 1..MaxDecls : ResumeProcessDeclaration(i)
    \/ \E i \in 1..MaxDecls : ParallelUnitSettle(i)
    \/ ParallelBatchMerge
    \/ SequentialStep
    \/ FinishAudit

SpecEq == Init /\ [][NextEq]_vars

(* --------- executeAudit over the maxConcurrency values of the schema ---------- *)
\* executionOptions.maxConcurrency is z.number(): zero and negative numbers pass
ConcurrencyValues == {0 - 1, 0} \cup 1..MaxConcurrencyBound

\* executeAudit(config, declarations) with any such maxConcurrency
ExecuteAuditAnyConcurrency ==
    /\ pc = "idle"
    /\ executions = <<>>
    /\ \E cfg \in Configs, mc \in ConcurrencyValues, decls \in DeclLists :
          StartAudit([cfg EXCEPT !.maxConcurrency = mc], decls, "none")

NextConc ==
    \/ ExecuteAuditAnyConcurrency
    \/ \E i \in 1..MaxDecls : ResumeProcessDeclaration(i)
    \/ \E i \in 1..MaxDecls : ParallelUnitSettle(i)
    \/ ParallelBatchMerge
    \/ SequentialStep
    \/ FinishAudit

SpecConc == Init /\ [][NextConc]_vars

(* ------ the same input with a callback that returns, then one that throws ------ *)
\* executeAudit with a progress callback that returns normally
ExecuteAuditCallbackReturns ==
    /\ pc = "idle"
    /\ executions = <<>>
    /\ \E cfg \in Configs, decls \in DeclLists : StartAudit(cfg, decls, "returns")

\* once that call has returned: executeAudit over the same declarations and the
\* same configuration with a progress callback that throws on every invocation
ExecuteAuditCallbackThrows ==
    /\ pc = "done"
    /\ Len(executions) = 1
    /\ StartAudit(config, declarations, "throws")

NextCb ==
    \/ ExecuteAuditCallbackReturns
    \/ ExecuteAuditCallbackThrows
    \/ \E i \in 1..MaxDecls : ResumeProcessDeclaration(i)
    \/ \E i \in 1..MaxDecls : ParallelUnitSettle(i)
    \/ ParallelBatchMerge
    \/ SequentialStep
    \/ FinishAudit

SpecCb == Init /\ [][NextCb]_vars

(* ----------------------- rule-pack simulation --------------------------- *)
\* the '*' of an hsCode pattern, among the digits
Star == 0 - 1

\* pattern.replace('*', ''): the pattern without its first '*'
RECURSIVE replaceStar(_)
replaceStar(pattern) ==
    IF pattern = <<>> THEN <<>>
    ELSE IF Head(pattern) = Star THEN Tail(pattern)
         ELSE <<Head(pattern)>> \o replaceStar(Tail(pattern))

\* the rules of generateGhanaRules the packs are built from; `present` lists the
\* optional criteria the rule carries
PetroAtg001 ==
    [ id |-> "petro-atg-001", category |-> "petroleum", isActive |-> TRUE,
      ecowasOriginCheck |-> TRUE,
      present |-> {"hsCodePatterns", "valueThreshold", "riskScoreThreshold"},
      hsCodePatterns |-> {<<2,7,0,9,Star>>, <<2,7,1,0,Star>>, <<2,7,1,1,Star>>},
      countryPatterns |-> {},
      valueThreshold |-> 50000,
      riskScoreThreshold |-> 75 ]

PetroTax002 ==
    [ id |-> "petro-tax-002", category |-> "petroleum", isActive |-> TRUE,
      ecowasOriginCheck |-> FALSE,
      present |-> {"hsCodePatterns", "valueThreshold"},
      hsCodePatterns |-> {<<2,7,0,9,Star>>, <<2,7,1,0,Star>>, <<2,7,1,1,Star>>},
      countryPatterns |-> {},
      valueThreshold |-> 10000,
      riskScoreThreshold |-> 0 ]

TextileOrigin003 ==
    [ id |-> "textile-origin-003", category |-> "textiles", isActive |-> TRUE,
      ecowasOriginCheck |-> TRUE,
      present |-> {"hsCodePatterns", "countryPatterns", "riskScoreThreshold"},
      hsCodePatterns |-> { <<5,2,0,Star>>, <<5,3,0,Star>>, <<5,4,0,Star>>, <<5,5,0,Star>>,
                           <<5,6,0,Star>>, <<5,7,0,Star>>, <<5,8,0,Star>>, <<5,9,0,Star>>,
                           <<6,0,0,Star>>, <<6,1,0,Star>> },
      countryPatterns |-> ecowasCountries,
      valueThreshold |-> 0,
      riskScoreThreshold |-> 70 ]

\* each of them active or switched off
GhanaRules ==
    { [r EXCEPT !.isActive = a] :
      r \in {PetroAtg001, PetroTax002, TextileOrigin003}, a \in BOOLEAN }

\* the rules arrays tried: every sequence of at most MaxRules rules
RulePacks == UNION { [1..n -> GhanaRules] : n \in 0..MaxRules }

\* the test declarations of a simulation; each has an hsCode
SimDeclarations ==
    { [BaseDecl EXCEPT !.id = "D1", !.present = {"hsCode"}, !.hsCode = <<2,7,1,0,1,9,9,0>>,
                       !.originCountry = "NG", !.value = 5000, !.sector = "petroleum"],
      [BaseDecl EXCEPT !.id = "D1", !.present = {"hsCode"}, !.hsCode = <<2,7,1,0,1,9,9,0>>,
                       !.originCountry = "NG", !.value = 100000, !.sector = "petroleum"],
      [BaseDecl EXCEPT !.id = "D1", !.present = {"hsCode"}, !.hsCode = <<5,2,0,1,0,0,0,0>>,
                       !.originCountry = "CN", !.ecowasOrigin = TRUE, !.value = 2000,
                       !.sector = "textiles"] }

\* what one rule adds to the running riskScore
ruleScore(rule, d) ==
    (IF "hsCodePatterns" \in rule.present
        /\ \E pattern \in rule.hsCodePatterns : startsWith(d.hsCode, replaceStar(pattern))
     THEN 20 ELSE 0)
    + (IF "valueThreshold" \in rule.present /\ rule.valueThreshold # 0
          /\ d.value < rule.valueThreshold
       THEN 15 ELSE 0)
    + (IF "countryPatterns" \in rule.present /\ rule.ecowasOriginCheck
          /\ d.ecowasOrigin /\ d.originCountry \notin rule.countryPatterns
       THEN 30 ELSE 0)
    + (IF rule.category = d.sector THEN 10 ELSE 0)

\* the loop of evaluateDeclaration from rule i on, with the running riskScore and
\* hasViolation: the threshold of a rule is tested when the loop is at that rule
RECURSIVE evaluateFrom(_, _, _, _, _)
evaluateFrom(rules, d, i, riskScore, hasViolation) ==
    IF i > Len(rules)
    THEN [done |-> TRUE, hasViolation |-> hasViolation, riskScore |-> riskScore]
    ELSE IF ~rules[i].isActive
         THEN evaluateFrom(rules, d, i + 1, riskScore, hasViolation)
         ELSE LET score == riskScore + ruleScore(rules[i], d)
                  exceeds == /\ "riskScoreThreshold" \in rules[i].present
                             /\ rules[i].riskScoreThreshold # 0
                             /\ score >= rules[i].riskScoreThreshold
              IN  evaluateFrom(rules, d, i + 1, score, hasViolation \/ exceeds)

evaluateDeclaration(rules, d) == evaluateFrom(rules, d, 1, 0, FALSE)

\* simulateRulePack evaluates one declaration of its test dataset
EvaluateDeclaration ==
    /\ pc = "idle"
    /\ ~evaluation.done
    /\ \E rules \in RulePacks, d \in SimDeclarations :
          /\ rulePack' = rules
          /\ simDeclaration' = d
          /\ evaluation' = evaluateDeclaration(rules, d)
    /\ UNCHANGED << auditVars, storeVars, agentVars, engineVars >>

NextRules == EvaluateDeclaration

SpecRules == Init /\ [][NextRules]_vars

(* ------------------ the ECOWAS origin agent on its own ------------------- *)
\* declarations that differ in every field the agent reads; <<>> stands for a
\* declaration without an hsCode property
OriginDeclarations ==
    { [BaseDecl EXCEPT !.id = "D1",
                       !.present = IF h = <<>> THEN {"documents"} ELSE {"hsCode", "documents"},
                       !.hsCode = h, !.ecowasOrigin = claim,
                       !.originCountry = o, !.destinationCountry = dest, !.value = v,
                       !.transitCountries = tr, !.documents = docs] :
      h \in {<<>>, <<5,2,0,1,0,0,0,0>>, <<2,7,1,0,1,9,9,0>>},
      claim \in BOOLEAN, o \in {"CN", "NG", "GH"}, dest \in {"GH", "TG"},
      v \in {0, 2000}, tr \in {{}, {"AE"}},
      docs \in {{}, {"certificate-of-origin"}} }

\* one call of ECOWASOriginVerificationAgent.analyze(d)
AnalyzeOrigin ==
    /\ ~agentOutput.called
    /\ \E d \in OriginDeclarations :
          /\ agentInput' = d
          /\ agentOutput' = [ called |-> TRUE,
                              thrown |-> ECOWASOriginAnalyze(d).thrown,
                              result |-> ECOWASOriginAnalyze(d).result ]
    /\ UNCHANGED << auditVars, simVars, storeVars, engineVars >>

NextOrigin == AnalyzeOrigin

SpecOrigin == Init /\ [][NextOrigin]_vars

(* -------------------------- rule-pack store ----------------------------- *)
\* the ids createRulePack gives out (`rp-${Date.now()}-${random}`), taken fresh
PackIds == <<"rp-1", "rp-2", "rp-3", "rp-4", "rp-5">>

\* the positions of the stored packs with isActive = true
activePacks(packs) == {i \in 1..Len(packs) : packs[i].isActive}

\* getActiveRulePack: the first stored pack with isActive = true, or null
getActiveRulePack(packs) ==
    IF activePacks(packs) = {} THEN "null"
    ELSE packs[CHOOSE i \in activePacks(packs) : \A j \in activePacks(packs) : i <= j].id

\* createRulePack(data): isActive as given (the schema's default is true); the
\* pack is appended under a fresh id
CreateRulePack(isActive) ==
    /\ packsCreated < MaxPacks
    /\ rulePacks' = Append(rulePacks, [id |-> PackIds[packsCreated + 1],
                                       isActive |-> isActive])
    /\ packsCreated' = packsCreated + 1
    /\ UNCHANGED << auditVars, simVars, agentVars, engineVars >>

\* updateRulePack(id, {isActive}) on a stored id: Map.set keeps the pack's place
UpdateRulePack(i, isActive) ==
    /\ i \in 1..Len(rulePacks)
    /\ rulePacks' = [rulePacks EXCEPT ![i].isActive = isActive]
    /\ UNCHANGED << packsCreated, auditVars, simVars, agentVars, engineVars >>

\* deleteRulePack(id) on a stored id
DeleteRulePack(i) ==
    /\ i \in 1..Len(rulePacks)
    /\ rulePacks' = SubSeq(rulePacks, 1, i - 1) \o SubSeq(rulePacks, i + 1, Len(rulePacks))
    /\ UNCHANGED << packsCreated, auditVars, simVars, agentVars, engineVars >>

NextPacks ==
    \/ \E a \in BOOLEAN : CreateRulePack(a)
    \/ \E i \in 1..(MaxPacks + 1), a \in BOOLEAN : UpdateRulePack(i, a)
    \/ \E i \in 1..(MaxPacks + 1) : DeleteRulePack(i)

SpecPacks == Init /\ [][NextPacks]_vars

(* ------------------------- production engine ---------------------------- *)
\* const maxConcurrent = 5 in processQueue
maxConcurrent == 5

\* the ids executeAuditWithMonitoring gives out, and the ids the runner gives
\* the audits it starts: both are `exec-${Date.now()}-${random}`, drawn
\* separately, so the runner's id of an audit is not the engine's id of it
EngineIds == <<"E1", "E2", "E3", "E4", "E5", "E6", "E7", "E8", "E9", "E10", "E11", "E12">>
RunnerIds == <<"R1", "R2", "R3", "R4", "R5", "R6", "R7", "R8", "R9", "R10", "R11", "R12">>

Priorities == {"low", "medium", "high"}

\* the runner's id for the audit started for the k-th submission
runnerIdOf(executionId) ==
    RunnerIds[CHOOSE k \in 1..Len(EngineIds) : EngineIds[k] = executionId]

queuedIds(queue) == {queue[i].executionId : i \in 1..Len(queue)}

\* a medium item is pushed at the end, whatever is queued
queueExecutionMediumLast(queue, item) ==
    IF item.priority = "high" THEN <<item>> \o queue ELSE Append(queue, item)

\* queueExecution: high is unshifted, medium goes before the first low item (at
\* the end when there is none), low is pushed
queueExecution(queue, item) ==
    IF item.priority = "high" THEN <<item>> \o queue
    ELSE IF item.priority = "medium"
         THEN LET lows == {i \in 1..Len(queue) : queue[i].priority = "low"}
              IN  IF lows = {} THEN Append(queue, item)
                  ELSE LET insertIndex == CHOOSE i \in lows : \A j \in lows : i <= j
                       IN  SubSeq(queue, 1, insertIndex - 1) \o <<item>>
                           \o SubSeq(queue, insertIndex, Len(queue))
         ELSE Append(queue, item)

\* processQueue returns early only when the queue is empty
queueBlockedWhenEmpty(queue, size) == Len(queue) = 0

\* the two early returns of processQueue: empty queue, or activeExecutions.size
\* at the limit
queueBlocked(queue, size) == Len(queue) = 0 \/ size >= maxConcurrent

\* processQueue() up to its await, given the queue and activeExecutions.size at
\* the call: it shifts the head and calls auditRunner.executeAudit for it, which
\* stores a running execution under an id of its own
ProcessQueue(queue, size) ==
    IF queueBlocked(queue, size)
    THEN /\ executionQueue' = queue
         /\ UNCHANGED << engineRunning, runnerExecutions, lastStarted >>
    ELSE /\ executionQueue' = Tail(queue)
         /\ lastStarted' = Head(queue)
         /\ engineRunning' = engineRunning \cup {Head(queue).executionId}
         /\ runnerExecutions' = runnerExecutions \cup
                {[ executionId |-> runnerIdOf(Head(queue).executionId),
                   startedFor |-> Head(queue).executionId,
                   status |-> "running" ]}

\* executeAuditWithMonitoring(config, declarations, priority): queueExecution,
\* processQueue, then the promise executor (activeExecutions.set, the listeners,
\* the 'started' event, on which handleComplete removes both listeners again)
ExecuteAuditWithMonitoring(priority) ==
    /\ exitCode = "none"
    /\ submitted < Len(EngineIds)
    /\ LET executionId == EngineIds[submitted + 1]
       IN  /\ ProcessQueue(queueExecution(executionQueue,
                                          QueueItem(executionId, priority, submitted + 1)),
                           Cardinality(activeExecutions))
           /\ activeExecutions' = activeExecutions \cup {executionId}
           /\ promises' = (executionId :> "pending") @@ promises
           /\ auditEvents' = auditEvents \cup {<<executionId, "started">>}
    /\ submitted' = submitted + 1
    /\ UNCHANGED << queueTimers, isShuttingDown, cancelRequests, exitCode >>
    /\ UNCHANGED << auditVars, simVars, storeVars, agentVars >>

\* processQueue resumes after `await this.auditRunner.executeAudit(...)`, which
\* always fulfils, with an execution of whatever status: the 'completed' event,
\* resolve and activeExecutions.delete, then setTimeout(processQueue, 100).
\* The runner keeps the finished record; it is dropped here because
\* cancelExecution answers false for a finished record as for an unknown id.
ExecuteAuditReturns(executionId) ==
    /\ exitCode = "none"
    /\ executionId \in engineRunning
    /\ engineRunning' = engineRunning \ {executionId}
    /\ runnerExecutions' = {r \in runnerExecutions : r.startedFor # executionId}
    /\ auditEvents' = auditEvents \cup {<<executionId, "completed">>}
    /\ IF executionId \in activeExecutions
       THEN /\ promises' = [promises EXCEPT ![executionId] = "resolved"]
            /\ activeExecutions' = activeExecutions \ {executionId}
       ELSE UNCHANGED << promises, activeExecutions >>
    /\ queueTimers' = queueTimers + 1
    /\ UNCHANGED << executionQueue, submitted, isShuttingDown, cancelRequests,
                    lastStarted, exitCode >>
    /\ UNCHANGED << auditVars, simVars, storeVars, agentVars >>

\* a timer set by processQueue fires: processQueue()
ProcessQueueTimer ==
    /\ exitCode = "none"
    /\ queueTimers > 0
    /\ queueTimers' = queueTimers - 1
    /\ ProcessQueue(executionQueue, Cardinality(activeExecutions))
    /\ UNCHANGED << activeExecutions, submitted, promises, auditEvents,
                    isShuttingDown, cancelRequests, exitCode >>
    /\ UNCHANGED << auditVars, simVars, storeVars, agentVars >>

\* where the execution named by a cancel request stands
standing(executionId) ==
    IF executionId \in queuedIds(executionQueue) THEN "queued"
    ELSE IF executionId \in engineRunning THEN "running"
    ELSE IF \E r \in runnerExecutions : r.executionId = executionId THEN "runner-id"
    ELSE "other"

\* a 'cancel-execution' message naming executionId: cancelExecution(executionId).
\* A queued item is spliced out; otherwise auditRunner.cancelExecution looks the
\* id up among the runner's own ids.
CancelRequest(executionId) ==
    /\ exitCode = "none"
    /\ Cardinality(cancelRequests) < MaxCancels
    /\ executionId \notin {c[1] : c \in cancelRequests}
    /\ cancelRequests' = cancelRequests \cup {<<executionId, standing(executionId)>>}
    /\ IF executionId \in queuedIds(executionQueue)
       THEN /\ executionQueue' = SelectSeq(executionQueue,
                                           LAMBDA item : item.executionId # executionId)
            /\ auditEvents' = auditEvents \cup {<<executionId, "cancelled">>}
            /\ UNCHANGED runnerExecutions
       ELSE /\ UNCHANGED executionQueue
            /\ IF \E r \in runnerExecutions :
                      r.executionId = executionId /\ r.status = "running"
               THEN /\ runnerExecutions' =
                          {IF r.executionId = executionId
                           THEN [r EXCEPT !.status = "cancelled"] ELSE r :
                           r \in runnerExecutions}
                    /\ auditEvents' = auditEvents \cup {<<executionId, "cancelled">>}
               ELSE UNCHANGED << runnerExecutions, auditEvents >>
    /\ UNCHANGED << activeExecutions, submitted, engineRunning, promises, queueTimers,
                    isShuttingDown, lastStarted, exitCode >>
    /\ UNCHANGED << auditVars, simVars, storeVars, agentVars >>

\* SIGTERM or SIGINT: isShuttingDown is set before the wait loop tests it, so
\* `activeExecutions.size > 0 && !this.isShuttingDown` is false on its first
\* test and the handler runs to process.exit(0) without awaiting
Shutdown ==
    /\ exitCode = "none"
    /\ isShuttingDown' = TRUE
    /\ exitCode' = IF Cardinality(activeExecutions) > 0 /\ ~isShuttingDown'
                   THEN "waiting" ELSE "0"
    /\ UNCHANGED << executionQueue, activeExecutions, submitted, engineRunning,
                    runnerExecutions, promises, auditEvents, queueTimers,
                    cancelRequests, lastStarted >>
    /\ UNCHANGED << auditVars, simVars, storeVars, agentVars >>

NextEngine ==
    \/ \E priority \in Priorities :
          submitted < MaxSubmissions /\ ExecuteAuditWithMonitoring(priority)
    \/ \E k \in 1..submitted : ExecuteAuditReturns(EngineIds[k])
    \/ ProcessQueueTimer
    \/ \E k \in 1..submitted : CancelRequest(EngineIds[k])
    \/ \E r \in runnerExecutions : CancelRequest(r.executionId)
    \/ Shutdown

SpecEngine == Init /\ [][NextEngine]_vars

(* ------------- the engine under a burst of default submissions ---------- *)
\* executeAuditWithMonitoring(config, declarations): priority defaults to 'medium'
NextLoad ==
    \/ submitted < MaxArrivals /\ ExecuteAuditWithMonitoring("medium")
    \/ \E k \in 1..submitted : ExecuteAuditReturns(EngineIds[k])
    \/ ProcessQueueTimer

SpecLoad == Init /\ [][NextLoad]_vars

(* ----------------------- the execution queue alone ---------------------- *)
\* queueExecution(id, config, declarations, priority)
QueueExecution(priority) ==
    /\ submitted < Len(EngineIds)
    /\ Len(executionQueue) < MaxQueue
    /\ executionQueue' = queueExecution(executionQueue,
                              QueueItem(EngineIds[submitted + 1], priority, submitted + 1))
    /\ submitted' = submitted + 1
    /\ UNCHANGED << activeExecutions, engineRunning, runnerExecutions, promises,
                    auditEvents, queueTimers, isShuttingDown, cancelRequests,
                    lastStarted, exitCode >>
    /\ UNCHANGED << auditVars, simVars, storeVars, agentVars >>

\* this.executionQueue.shift() in processQueue
QueueShift ==
    /\ executionQueue # <<>>
    /\ executionQueue' = Tail(executionQueue)
    /\ UNCHANGED << activeExecutions, submitted, engineRunning, runnerExecutions,
                    promises, auditEvents, queueTimers, isShuttingDown, cancelRequests,
                    lastStarted, exitCode >>
    /\ UNCHANGED << auditVars, simVars, storeVars, agentVars >>

\* this.executionQueue.splice(queueIndex, 1) in cancelExecution
QueueSplice(queueIndex) ==
    /\ queueIndex \in 1..Len(executionQueue)
    /\ executionQueue' = SubSeq(executionQueue, 1, queueIndex - 1)
                         \o SubSeq(executionQueue, queueIndex + 1, Len(executionQueue))
    /\ UNCHANGED << activeExecutions, submitted, engineRunning, runnerExecutions,
                    promises, auditEvents, queueTimers, isShuttingDown, cancelRequests,
                    lastStarted, exitCode >>
    /\ UNCHANGED << auditVars, simVars, storeVars, agentVars >>

NextQueue ==
    \/ \E priority \in Priorities : submitted < MaxInsertions /\ QueueExecution(priority)
    \/ QueueShift
    \/ \E i \in 1..MaxQueue : QueueSplice(i)

SpecQueue == Init /\ [][NextQueue]_vars

(* ------------------------------ claims --------------------------------- *)
Terminal == {"completed", "failed", "cancelled"}

\* C1: once the status of an execution is terminal, no later step changes it
\* (a cancelled execution never becomes completed or failed, none returns to
\* running).
C1_StatusOnlyForward ==
    [][\A i \in 1..Len(executions) :
          executions[i].status \in Terminal =>
              executions'[i].status = executions[i].status]_vars

\* C2: when cancelExecution returned true before any declaration was processed,
\* the execution executeAudit returns has status 'cancelled' and
\* processedDeclarations = 0.
C2_CancelBeforeProcessing ==
    (pc = "done" /\ cancelInfo.done /\ cancelInfo.processed = 0) =>
        /\ executions[cur].status = "cancelled"
        /\ executions[cur].processedDeclarations = 0

\* C3: once cancelExecution has returned true, no analyze is invoked for a
\* declaration whose unit (declaration or batch) had not been dispatched by then.
C3_NoUnitStartedAfterCancel ==
    cancelInfo.done => \A c \in analyzeCalls : c[1] \in cancelInfo.dispatched

\* C4: after cancelExecution has returned true, agentResults gains no element
\* and processedDeclarations does not increase.
C4_InFlightResultsDiscarded ==
    cancelInfo.done =>
        /\ Len(executions[cur].agentResults) = cancelInfo.results
        /\ executions[cur].processedDeclarations = cancelInfo.processed

\* C5: every execution that ended 'completed' or 'failed' has
\* processedDeclarations + failedDeclarations = totalDeclarations.
C5_TerminalCountsAddUp ==
    \A i \in 1..Len(executions) :
        executions[i].status \in {"completed", "failed"} =>
            executions[i].processedDeclarations + executions[i].failedDeclarations
                = executions[i].totalDeclarations

\* C6: at every point of every execution, in both modes,
\* processedDeclarations + failedDeclarations <= totalDeclarations.
C6_CountsBounded ==
    \A i \in 1..Len(executions) :
        executions[i].processedDeclarations + executions[i].failedDeclarations
            <= executions[i].totalDeclarations

\* an execution with a processed and a failed declaration that add up to the total
C6_Witness ==
    /\ cur = 1
    /\ executions[1].processedDeclarations > 0
    /\ executions[1].failedDeclarations > 0
    /\ executions[1].processedDeclarations + executions[1].failedDeclarations
           = executions[1].totalDeclarations

\* C7: the sequential and the parallel run of the same declarations and
\* configuration end with identical ghanaMetrics and identical processed and
\* failed counts.
C7_ModesAgree ==
    (pc = "done" /\ Len(executions) = 2) =>
        /\ executions[2].ghanaMetrics = executions[1].ghanaMetrics
        /\ executions[2].processedDeclarations = executions[1].processedDeclarations
        /\ executions[2].failedDeclarations = executions[1].failedDeclarations

\* both runs are over: a batch of two, a failed declaration and a violation
C7_Witness ==
    /\ pc = "done"
    /\ Len(executions) = 2
    /\ config.parallelExecution
    /\ config.maxConcurrency >= 2
    /\ Len(filtered) >= 2
    /\ executions[2].failedDeclarations > 0
    /\ executions[2].ghanaMetrics.totalViolations > 0

\* C8: in parallel mode no step merges results into the execution (agentResults,
\* processedDeclarations) while a unit of the batch has not settled.
C8_MergeAfterBatchSettled ==
    [][(/\ pc = "parAwait"
        /\ \/ executions'[cur].agentResults # executions[cur].agentResults
           \/ executions'[cur].processedDeclarations # executions[cur].processedDeclarations)
       => \A i \in 1..Len(units) : units[i].st \in {"settled", "settledNull"}]_vars

\* a batch of two has been merged: one declaration processed, one caught failure
C8_Witness ==
    /\ cur = 1
    /\ config.parallelExecution
    /\ config.maxConcurrency >= 2
    /\ Len(filtered) >= 2
    /\ position = 1
    /\ pc = "awaitMode"
    /\ executions[1].processedDeclarations > 0
    /\ executions[1].failedDeclarations > 0

\* C9: in parallel mode, while a unit of a batch of several units has not
\* settled, no step writes processedDeclarations, failedDeclarations, errors or
\* agentResults of the execution.
C9_UnitsWriteNoSharedState ==
    [][(/\ pc = "parAwait"
        /\ Len(units) >= 2
        /\ \E i \in 1..Len(units) : units[i].st \notin {"settled", "settledNull"})
       => /\ executions'[cur].processedDeclarations = executions[cur].processedDeclarations
          /\ executions'[cur].failedDeclarations = executions[cur].failedDeclarations
          /\ executions'[cur].errors = executions[cur].errors
          /\ executions'[cur].agentResults = executions[cur].agentResults]_vars

\* C10: every analyze call that threw has an entry in execution.errors carrying
\* the declaration's id and the agent type.
C10_AgentErrorRecorded ==
    \A c \in agentThrows :
        \E k \in 1..Len(executions[cur].errors) :
            /\ executions[cur].errors[k].declarationId = c[1]
            /\ executions[cur].errors[k].agentType = c[2]

\* C11: a declaration is counted in failedDeclarations (the catch of its unit
\* pushed an entry with its id) only when no agent returned a result for it.
C11_FailedOnlyWithoutResult ==
    \A i \in 1..Len(executions) :
        \A k \in 1..Len(executions[i].errors) :
            LET err == executions[i].errors[k]
            IN  (i = cur /\ err.declarationId # "system") =>
                    \A a \in Range(AgentTypes) : <<err.declarationId, a>> \notin agentReturns

\* C12: executeAudit always returns an execution with a terminal status, and
\* when an error was raised outside the per-declaration handlers (filtering
\* threw) the returned execution has status 'failed' and its errors list holds
\* an entry for the failure.
C12_ErrorBecomesFailedResult ==
    pc = "done" =>
        /\ executions[cur].status \in Terminal
        /\ filterThrows(declarations, config) =>
              /\ executions[cur].status = "failed"
              /\ \E k \in 1..Len(executions[cur].errors) :
                    /\ executions[cur].errors[k].declarationId = "system"
                    /\ executions[cur].errors[k].agentType = "system"

\* filtering threw on a non-empty input and executeAudit has returned
C12_Witness ==
    /\ pc = "done"
    /\ declarations # <<>>
    /\ filterThrows(declarations, config)
    /\ executions[cur].status = "failed"
    /\ executions[cur].processedDeclarations = 0

\* C13: a configuration whose scope is unknown, or is 'hs-codes', 'shipments' or
\* 'declarations' without the matching targetFilters list, is rejected before
\* any declaration is processed: no analyze is invoked and the execution does
\* not end 'completed'.
C13_InvalidConfigRejected ==
    LET tf == config.targetFilters
        invalid ==
            \/ config.scope \notin {"all", "hs-codes", "shipments", "declarations"}
            \/ config.scope = "hs-codes" /\ "hsCodes" \notin tf.present
            \/ config.scope = "shipments" /\ "shipmentIds" \notin tf.present
            \/ config.scope = "declarations" /\ "declarationIds" \notin tf.present
    IN  (pc # "idle" /\ invalid) =>
            /\ analyzeCalls = {}
            /\ executions[cur].status # "completed"

\* C14: analyze of an agent is invoked on a declaration only if the agent's
\* enable flag in agentConfig is true and shouldAgentRun accepts the declaration
\* for that agent type.
C14_BothLayersAllow ==
    \A c \in analyzeCalls :
        \E i \in 1..Len(declarations) :
            /\ declarations[i].id = c[1]
            /\ CASE c[2] = "ecowas-origin" -> config.agentConfig.enableECOWASAgent
                 [] c[2] = "petroleum-atg" -> config.agentConfig.enablePetroleumAgent
                 [] c[2] = "tax-compliance" -> config.agentConfig.enableTaxAgent
                 [] c[2] = "tsa-reconciliation" -> config.agentConfig.enableTSAgent
                 [] OTHER -> FALSE
            /\ shouldAgentRun(c[2], declarations[i])

\* a finished call in which, for one declaration, an agent was invoked, an
\* enabled agent was skipped by the selection policy and an agent the policy
\* accepts was skipped because it is disabled
C14_Witness ==
    /\ pc = "done"
    /\ \E i \in 1..Len(declarations) :
          LET d == declarations[i]
          IN  /\ Has(d, "hsCode")
              /\ <<d.id, "ecowas-origin">> \in analyzeCalls
              /\ config.agentConfig.enablePetroleumAgent
              /\ ~shouldAgentRun("petroleum-atg", d)
              /\ <<d.id, "petroleum-atg">> \notin analyzeCalls
              /\ ~config.agentConfig.enableTaxAgent
              /\ shouldAgentRun("tax-compliance", d)
              /\ <<d.id, "tax-compliance">> \notin analyzeCalls

\* C15: filterDeclarations returns exactly the input declarations that satisfy
\* the scope criterion and every common filter present in targetFilters: one
\* failing any present criterion is excluded, one satisfying all is included.
C15_FilterIsConjunction ==
    pc = "filtered" =>
        LET tf == config.targetFilters
            satisfiesAll(d) ==
                /\ config.scope = "hs-codes" =>
                      \E k \in 1..Len(tf.hsCodes) :
                          /\ Len(d.hsCode) >= Len(tf.hsCodes[k])
                          /\ SubSeq(d.hsCode, 1, Len(tf.hsCodes[k])) = tf.hsCodes[k]
                /\ config.scope = "shipments" => d.shipmentId \in tf.shipmentIds
                /\ config.scope = "declarations" => d.id \in tf.declarationIds
                /\ "dateRange" \in tf.present =>
                      (tf.dateStart <= d.date /\ d.date <= tf.dateEnd)
                /\ "countries" \in tf.present =>
                      ({d.originCountry, d.destinationCountry} \cap tf.countries # {})
                /\ "riskThreshold" \in tf.present => d.riskScore >= tf.riskThreshold
                /\ "sectors" \in tf.present => d.sector \in tf.sectors
            kept == {i \in 1..Len(declarations) : satisfiesAll(declarations[i])}
        IN  /\ \A i \in 1..Len(declarations) :
                  (i \in kept) <=> (\E j \in 1..Len(filtered) : filtered[j] = declarations[i])
            /\ Len(filtered) = Cardinality(kept)

\* scope 'hs-codes' with hsCodes ['2710'] over 27101990 and 52010000: only the
\* first is kept
C15_Witness ==
    /\ pc = "filtered"
    /\ config.scope = "hs-codes"
    /\ config.targetFilters.present = {"hsCodes"}
    /\ Len(declarations) = 2
    /\ declarations[1].hsCode = <<2,7,1,0,1,9,9,0>>
    /\ declarations[2].hsCode = <<5,2,0,1,0,0,0,0>>
    /\ filtered = <<declarations[1]>>

\* C16: when a progress callback is supplied, by the time the mode function has
\* returned the callback has been invoked at least once for every declaration
\* (sequential mode) or every batch (parallel mode), whatever its outcome.
C16_ProgressForEveryUnit ==
    (pc = "awaitMode" /\ progressCallbacks # "none") =>
        \A u \in 1..(IF config.parallelExecution THEN Len(chunks) ELSE Len(filtered)) :
            u \in progressUnits

\* C17: an exception thrown by a progress callback does not reach the core
\* computation: the run whose callback throws ends with the same status,
\* counters, agentResults and errors (the same entries, in whatever order the
\* failed units of a batch settled) as the run whose callback returned.
C17_CallbackThrowChangesNothing ==
    (pc = "done" /\ Len(executions) = 2) =>
        /\ executions[2].status = executions[1].status
        /\ executions[2].totalDeclarations = executions[1].totalDeclarations
        /\ executions[2].processedDeclarations = executions[1].processedDeclarations
        /\ executions[2].failedDeclarations = executions[1].failedDeclarations
        /\ executions[2].agentResults = executions[1].agentResults
        /\ Len(executions[2].errors) = Len(executions[1].errors)
        /\ Range(executions[2].errors) = Range(executions[1].errors)

\* the second run has returned and its callback was invoked (and threw) for two
\* units
C17_Witness ==
    /\ pc = "done"
    /\ Len(executions) = 2
    /\ Cardinality(progressUnits) = 2
    /\ executions[2].processedDeclarations = 2
    /\ executions[2].status = "completed"

\* C18: after aggregation, violationTypes[t] is the number of findings of type
\* t across all agent results of the execution.
C18_HistogramCountsEveryFinding ==
    (pc = "done" /\ executions[cur].status = "completed") =>
        LET all == findingTypes(executions[cur].agentResults)
            hist == executions[cur].ghanaMetrics.violationTypes
        IN  \A t \in Range(all) \cup DOMAIN hist :
                (IF t \in DOMAIN hist THEN hist[t] ELSE 0) = CountOf(all, t)

\* C19: after aggregation, riskDistribution counts every agent result once, in
\* the bucket chosen by its riskScore: critical from 80, high from 60, medium
\* from 40, otherwise low.
C19_RiskBucketsByScore ==
    (pc = "done" /\ executions[cur].status = "completed") =>
        LET results == executions[cur].agentResults
            dist == executions[cur].ghanaMetrics.riskDistribution
            n(lo, hi) == Cardinality({i \in 1..Len(results) :
                                        results[i].riskScore >= lo /\ results[i].riskScore < hi})
        IN  /\ dist["critical"] = n(80, 101)
            /\ dist["high"] = n(60, 80)
            /\ dist["medium"] = n(40, 60)
            /\ dist["low"] = n(0, 40)

\* C20: in a rule-pack simulation a declaration is marked as having a violation
\* whenever its accumulated score over the active rules meets or exceeds the
\* riskScoreThreshold of some active rule, wherever that rule stands in the pack.
C20_ViolationWheneverThresholdMet ==
    evaluation.done =>
        ((\E k \in 1..Len(rulePack) :
              /\ rulePack[k].isActive
              /\ "riskScoreThreshold" \in rulePack[k].present
              /\ evaluation.riskScore >= rulePack[k].riskScoreThreshold)
         => evaluation.hasViolation)

\* C21: after any sequence of createRulePack, updateRulePack and deleteRulePack
\* calls exactly one stored pack has isActive = true, and getActiveRulePack
\* returns it.
C21_ExactlyOneActivePack ==
    /\ Cardinality({i \in 1..Len(rulePacks) : rulePacks[i].isActive}) = 1
    /\ getActiveRulePack(rulePacks) # "null"

C23_NoStrandedSubmission ==
    executionQueue # <<>> => (engineRunning # {} \/ queueTimers > 0)

\* C24: every promise returned by executeAuditWithMonitoring settles in the
\* end, also when its execution is cancelled while queued: a promise that is
\* still pending belongs to an execution that is queued or running, the only
\* ones processQueue will ever resolve or reject.
C24_PendingPromiseCanSettle ==
    \A executionId \in DOMAIN promises :
        promises[executionId] = "pending"
        => (executionId \in queuedIds(executionQueue) \/ executionId \in engineRunning)

\* C25: a 'cancel-execution' request naming the id of an execution the engine
\* has dequeued and is running cancels that audit: a 'cancelled' event is
\* emitted for the requested id and the runner execution started for it is no
\* longer 'running' but 'cancelled'.
C25_CancelReachesRunningAudit ==
    \A c \in cancelRequests :
        c[2] = "running"
        => /\ <<c[1], "cancelled">> \in auditEvents
           /\ \A r \in runnerExecutions : r.startedFor = c[1] => r.status = "cancelled"

\* C26: at no time are more than 5 audit executions running inside the engine,
\* for any sequence of executeAuditWithMonitoring calls and returns of
\* executeAudit.
C26_AtMostFiveRunning ==
    Cardinality(engineRunning) <= 5

\* five executions are running, a sixth waits, and one of the first five has
\* already returned and been replaced
C26_Witness ==
    /\ Cardinality(engineRunning) = 5
    /\ executionQueue # <<>>
    /\ \E executionId \in DOMAIN promises : promises[executionId] = "resolved"

\* C27: the execution queue is ordered by priority at all times: after any
\* sequence of queueExecution insertions, dequeues and queue cancellations, no
\* medium or low item precedes a high item and no low item precedes a medium
\* item.
C27_QueueOrderedByPriority ==
    \A i, j \in 1..Len(executionQueue) :
        i < j => \/ executionQueue[i].priority = "high"
                 \/ executionQueue[j].priority = "low"
                 \/ executionQueue[i].priority = executionQueue[j].priority

\* a medium item inserted after a low one stands before it, behind a high item
C27_Witness ==
    /\ Len(executionQueue) = 3
    /\ executionQueue[1].priority = "high"
    /\ executionQueue[2].priority = "medium"
    /\ executionQueue[3].priority = "low"
    /\ executionQueue[2].timestamp > executionQueue[3].timestamp

\* C28: executions of the same priority are started in the order they were
\* submitted: the execution started last was not taken while an execution of
\* its priority submitted before it is still waiting in the queue.
C28_StartedInSubmissionOrder ==
    \A i \in 1..Len(executionQueue) :
        ~(/\ executionQueue[i].priority = lastStarted.priority
          /\ executionQueue[i].timestamp < lastStarted.timestamp)

\* C29: on SIGTERM or SIGINT the engine waits for the active executions before
\* exiting: the exit with code 0 is reached only when no active execution
\* remains.
C29_ExitZeroOnlyWhenIdle ==
    exitCode = "0" => activeExecutions = {}

\* C30: executeAudit always terminates, for either execution mode, any
\* maxConcurrency the configuration may carry and every finite declaration
\* list: a call under way always has a step left to take, and a call that has
\* returned left its execution in a terminal status.
C30_ExecuteAuditTerminates ==
    /\ pc \notin {"idle", "done"} => ENABLED NextConc
    /\ (pc = "done" /\ executions # <<>>)
       => executions[Len(executions)].status \in {"completed", "failed", "cancelled"}
====
